---- MODULE Spec2Model ----
(***************************************************************************)
(* Skill Gap Analysis Service: the BYOK credential resolver with its       *)
(* quota fallback (app/services/gemini_service.py) and the cron freshness  *)
(* evaluator (app/services/data_service.py).                               *)
(***************************************************************************)
EXTENDS Integers, Sequences, FiniteSets, TLC

(***************************************************************************)
(* Bounds and input sets                                                   *)
(***************************************************************************)

\* Depth of nested analyze_skill_gap frames the interpreter allows before it
\* raises RecursionError (CPython: sys.getrecursionlimit(), scaled down).
RecursionLimit == 3

\* Largest wall-clock hour that occurs in a stored timestamp.
MaxWall == 2

Users == {"u1", "u2"}

\* Python None / JSON null.
NoneVal == "<None>"

\* The key a user saved through POST /api-key.
UserKey(u) == IF u = "u1" THEN "AIza-user-1" ELSE "AIza-user-2"

\* Values settings.GEMINI_API_KEY can be loaded with from the environment:
\* the default "", a whitespace-only value, a real key.
SystemKeyValues == {"", " ", "AIza-system"}

\* Contents of user_api_keys for one user (google_ai_studio rows).
KeyRow(v, a) == [api_key_encrypted |-> v, is_active |-> a]

KeyRowOptions(u) ==
    { <<>>,
      <<KeyRow(UserKey(u), TRUE)>>,
      <<KeyRow(UserKey(u), FALSE)>>,
      <<KeyRow("", TRUE)>>,
      <<KeyRow(" ", TRUE)>>,
      <<KeyRow(NoneVal, TRUE)>> }

\* Messages of the exceptions model.generate_content (and the lines after it
\* inside the try block) can raise, as sequences of words.
MsgQuota     == <<"429", "Quota", "exceeded">>
MsgRateLimit == <<"429", "rate", "limit", "reached">>
MsgPayload   == <<"400", "Request", "payload", "size", "exceeds", "the", "limit">>
MsgInternal  == <<"500", "Internal", "error">>
NoMsg        == <<>>

ErrorMessages == {MsgQuota, MsgRateLimit, MsgPayload, MsgInternal}

\* What the AI collaborator means by each message: a quota / rate-limit
\* rejection of the credential, or any other upstream failure.
QuotaErrors == {MsgQuota, MsgRateLimit}

\* Timestamps as the stores return them: a wall-clock hour and the way the
\* zone is written ("Z", an explicit offset, none), an unparsable string,
\* a JSON null, or a value that is not a string.
Ts(w, z) == [wall |-> w, tz |-> z]
NullTs   == Ts(0, "null")
BadTs    == Ts(0, "bad")
NonStrTs == Ts(0, "nonstr")

TimestampStrings ==
    {Ts(w, z) : w \in 1..MaxWall, z \in {"Z", "+01:00", "naive"}} \cup {BadTs}

\* Rows of skill_gap_analyses, profiles and github_connections for one user.
AnalysisRowOptions ==
    {<<>>} \cup {<<[analyzed_at |-> t]>> : t \in TimestampStrings \cup {NullTs, NonStrTs}}
ProfileRowOptions ==
    {<<>>} \cup {<<[resume_uploaded_at |-> t]>> : t \in TimestampStrings \cup {NullTs}}
GithubRowOptions ==
    {<<>>} \cup {<<[last_sync_at |-> t]>> : t \in TimestampStrings \cup {NullTs}}

\* How one requests.get ends: a 200, an error status, an exception.
Outcomes == {"200", "500", "exception"}

\* How one requests.post ends.
PostOutcomes == {"201", "500", "exception"}

\* key_service.CACHE_DURATION = timedelta(minutes=5), in minutes.
CACHE_DURATION == 5

\* The clock of the key cache runs from 0 to MaxClock minutes.
MaxClock == 6

\* Worker threads that call get_api_key.
Threads == {"t1", "t2"}

\* Dict objects that can be alive at once: the one the global names, one
\* returned to each thread, one being created.
Dicts == {"d0", "d1", "d2", "d3"}

\* Active rows of admin_api_keys, as response.json() lists them.
AdminApiKeys ==
    << [id |-> "gemini_GEMINI_API_KEY", key_value |-> "AIza-system"],
       [id |-> "serp_SERP_API_KEY", key_value |-> "serp-key"] >>

KeyIds == {AdminApiKeys[i].id : i \in 1..Len(AdminApiKeys)}

\* Concurrent POST /cron/run requests.
Runs == {"run1", "run2"}

\* How analyze_skill_gap ends for the caller: an analysis, an answer that
\* was not JSON wrapped as an analysis, ValueError (no credential), or
\* Exception("Gemini analysis failed").
\* Worker threads serving requests of the analysis router, and how many
\* requests they serve together.
Handlers == {"h1", "h2"}
MaxRequests == 2

\* Bodies of POST /roles and of generate_analysis: no roles, one, three, four.
RoleRequests == {<<>>, <<"data engineer">>,
                 <<"ml engineer", "data scientist", "sre">>,
                 <<"ml engineer", "data scientist", "sre", "dba">>}

\* Bodies of POST /api-key: empty, shorter than 10 characters, two keys.
ApiKeyLen(k) == IF k = "" THEN 0 ELSE IF k = "AIza" THEN 4 ELSE 11
ApiKeyRequests == {"", "AIza", "AIza-user-1", "AIza-user-3"}

AnalysisOutcomes == {"ok", "parse_error", "ValueError", "Exception"}

(***************************************************************************)
(* State                                                                   *)
(***************************************************************************)
VARIABLES
    skill_gap_analyses,  \* analysis history: user -> rows
    profiles,            \* profile store: user -> rows
    github_connections,  \* sync store: user -> rows
    check_result,        \* the last check_if_analysis_needed call and its result
    GEMINI_API_KEY,   \* settings.GEMINI_API_KEY (process configuration)
    user_api_keys,    \* credential store: user -> rows
    genai_api_key,    \* the module-global key set by genai.configure
    pc,               \* position of the running analyze_skill_gap call
    user_id,          \* its user_id argument
    api_key,          \* local api_key of the innermost frame
    key_source,       \* local key_source of the innermost frame
    depth,            \* number of recursive frames below the first
    error_msg,        \* str(e) in the except block
    key_resp,         \* response of the last user_api_keys lookup
    history,          \* the AI invocations of this call, in order
    result,           \* the returned analysis (its metadata)
    raised,           \* the exception that left analyze_skill_gap
    prev_raised,      \* the exception that left the previous call, if any
    now,                  \* datetime.now(timezone.utc), in hours
    user_preferred_roles, \* role store: user -> role names
    user_skills,          \* skill store: user -> skill names
    reports,              \* report store: user -> rows
    run,                  \* the run_weekly_analysis requests in progress
    calls,                \* concurrent analyze_skill_gap calls: user -> locals
    key_cache,            \* key_service._key_cache: the dict the global names
    heap,                 \* the dict objects: dict -> (key identifier -> value)
    cache_timestamp,      \* key_service._cache_timestamp
    clock,                \* datetime.now(), in minutes
    threads,              \* get_api_key calls: thread -> locals
    handlers              \* requests of the analysis router: worker -> locals

credVars == <<GEMINI_API_KEY, user_api_keys, genai_api_key, pc, user_id, api_key,
              key_source, depth, error_msg, key_resp, history, result, raised,
              prev_raised>>

freshVars == <<skill_gap_analyses, profiles, github_connections, check_result>>

cronVars == <<now, user_preferred_roles, user_skills, reports, run>>

concVars == <<calls>>

\* The state of the one analyze_skill_gap call that runs alone.
credLocals == <<pc, user_id, api_key, key_source, depth, error_msg, key_resp,
                history, result, raised, prev_raised>>

\* Everything outside the resolver, the evaluator and the cron run.
cacheVars == <<key_cache, heap, cache_timestamp, clock, threads>>

apiVars == <<handlers>>

auxVars == <<concVars, cacheVars, apiVars>>

\* Everything outside the key cache.
nonCacheVars == <<credVars, freshVars, cronVars, concVars, apiVars>>

\* Everything outside the resolver and the evaluator.
restVars == <<cronVars, auxVars>>

vars == <<credVars, freshVars, restVars>>

(***************************************************************************)
(* Python helpers                                                          *)
(***************************************************************************)

\* Truth value of an Optional[str]: None and "" are falsy, " " is truthy.
Truthy(v) == v # NoneVal /\ v # ""

\* str.lower() on the words that occur in the messages.
Lower(w) ==
    CASE w = "Quota"    -> "quota"
      [] w = "Request"  -> "request"
      [] w = "Internal" -> "internal"
      [] OTHER          -> w

\* sub in msg.lower()
ContainsLower(sub, msg) == \E i \in 1..Len(msg) : Lower(msg[i]) = sub

RECURSIVE SelectRows(_, _)
SelectRows(rows, active) ==
    IF rows = <<>> THEN <<>>
    ELSE IF Head(rows).is_active = active
         THEN <<Head(rows)>> \o SelectRows(Tail(rows), active)
         ELSE SelectRows(Tail(rows), active)

(***************************************************************************)
(* gemini_service.py                                                       *)
(***************************************************************************)

NoResp == [outcome |-> "none", json |-> <<>>]

\* requests.get on user_api_keys?user_id=eq.U&provider=...&is_active=eq.true:
\* a 200 with the active rows, an error status, or an exception (timeout).
UserKeyResponses(u) ==
    { [outcome |-> "200", json |-> SelectRows(user_api_keys[u], TRUE)],
      [outcome |-> "500", json |-> <<>>],
      [outcome |-> "exception", json |-> <<>>] }

get_user_gemini_key(resp) ==
    IF resp.outcome = "exception" THEN NoneVal
    ELSE IF resp.outcome = "200" /\ resp.json # <<>>
         THEN resp.json[1].api_key_encrypted
         ELSE NoneVal

NoCredential == [api_key |-> NoneVal, source |-> "", origin |-> "", raises |-> TRUE]

\* Mutant: the system key is preferred whenever it is configured.
get_api_key_for_user_system_first(resp) ==
    LET user_key == get_user_gemini_key(resp) IN
    IF Truthy(GEMINI_API_KEY)
    THEN [api_key |-> GEMINI_API_KEY, source |-> "system", origin |-> "system",
          raises |-> FALSE]
    ELSE IF Truthy(user_key)
         THEN [api_key |-> user_key, source |-> "user", origin |-> "user",
               raises |-> FALSE]
         ELSE NoCredential

\* Mutant: a failed lookup of the user's key is an error of the resolver.
get_api_key_for_user_strict(resp) ==
    LET user_key == get_user_gemini_key(resp) IN
    IF resp.outcome # "200" THEN NoCredential
    ELSE IF Truthy(user_key)
         THEN [api_key |-> user_key, source |-> "user", origin |-> "user",
               raises |-> FALSE]
         ELSE IF Truthy(GEMINI_API_KEY)
              THEN [api_key |-> GEMINI_API_KEY, source |-> "system",
                    origin |-> "system", raises |-> FALSE]
              ELSE NoCredential

\* Returns (api_key, source); origin is the place the value was read from.
get_api_key_for_user(resp) ==
    LET user_key == get_user_gemini_key(resp) IN
    IF Truthy(user_key)
    THEN [api_key |-> user_key, source |-> "user", origin |-> "user", raises |-> FALSE]
    ELSE IF Truthy(GEMINI_API_KEY)
         THEN [api_key |-> GEMINI_API_KEY, source |-> "system", origin |-> "system",
               raises |-> FALSE]
         ELSE NoCredential

NoKey     == [value |-> NoneVal, origin |-> ""]
NoResult  == [status |-> "none", api_key_source |-> ""]
NoRaise   == [type |-> "", cause |-> ""]

\* Mutant: a recursive frame keeps the key the except block configured.
Configure_keep_fallback(r, configured) ==
    IF depth > 0 THEN configured ELSE [value |-> r.api_key, origin |-> r.origin]

\* genai.configure(api_key=...) at line 75: the global client key becomes the
\* key this frame resolved, whatever was configured before.
Configure(r, configured) == [value |-> r.api_key, origin |-> r.origin]

\* "quota" in error_msg.lower() or "limit" in error_msg.lower()
IsQuotaMessage(msg) == ContainsLower("quota", msg) \/ ContainsLower("limit", msg)

\* The condition under which the except block recurses.
TakesFallback(msg, source, system_key) ==
    IsQuotaMessage(msg) /\ source = "user" /\ Truthy(system_key)

\* What the AI collaborator meant by the error that ended the call.
CauseOf(msg) == IF msg \in QuotaErrors THEN "quota" ELSE "upstream"

\* A request enters analyze_skill_gap (from generate_analysis or the cron run).
Start(u) ==
    /\ pc \in {"idle", "Success", "Failure"}
    /\ pc' = "resolve"
    /\ user_id' = u
    /\ depth' = 0
    /\ history' = <<>>
    /\ result' = NoResult
    /\ raised' = NoRaise
    /\ prev_raised' = raised
    /\ error_msg' = NoMsg
    /\ api_key' = NoneVal
    /\ key_source' = ""
    /\ key_resp' = NoResp
    /\ UNCHANGED <<GEMINI_API_KEY, user_api_keys, genai_api_key>>
    /\ UNCHANGED <<freshVars, restVars>>

\* Lines 71-76 of a frame: resolve the key, configure the client.
Resolve ==
    /\ pc = "resolve"
    /\ \E resp \in UserKeyResponses(user_id) :
         LET r == get_api_key_for_user(resp) IN
         /\ key_resp' = resp
         /\ IF r.raises
            THEN /\ pc' = "Failure"
                 /\ raised' = [type |-> "ValueError", cause |-> "no_credential"]
                 /\ api_key' = NoneVal
                 /\ key_source' = ""
                 /\ UNCHANGED genai_api_key
            ELSE /\ pc' = "invoke"
                 /\ api_key' = r.api_key
                 /\ key_source' = r.source
                 /\ genai_api_key' = Configure(r, genai_api_key)
                 /\ UNCHANGED raised
    /\ UNCHANGED <<GEMINI_API_KEY, user_api_keys, user_id, depth, error_msg,
                   history, result, prev_raised>>
    /\ UNCHANGED <<freshVars, restVars>>

\* Lines 221-248: the AI invocation with the configured key; on success the
\* result is tagged with key_source.
GenerateContent ==
    /\ pc = "invoke"
    /\ \E out \in {NoMsg} \cup ErrorMessages :
         /\ history' = Append(history, [value |-> genai_api_key.value,
                                        origin |-> genai_api_key.origin,
                                        error |-> out])
         /\ IF out = NoMsg
            THEN /\ pc' = "Success"
                 /\ result' = [status |-> "ok", api_key_source |-> key_source]
                 /\ UNCHANGED error_msg
            ELSE /\ pc' = "except"
                 /\ error_msg' = out
                 /\ UNCHANGED result
    /\ UNCHANGED <<GEMINI_API_KEY, user_api_keys, genai_api_key, user_id, api_key,
                   key_source, depth, key_resp, raised, prev_raised>>
    /\ UNCHANGED <<freshVars, restVars>>

\* Lines 250-265: the except block. The fallback configures the system key and
\* calls analyze_skill_gap again with the same arguments.
HandleError ==
    /\ pc = "except"
    /\ IF TakesFallback(error_msg, key_source, GEMINI_API_KEY)
       THEN /\ genai_api_key' = [value |-> GEMINI_API_KEY, origin |-> "system"]
            /\ IF depth < RecursionLimit
               THEN /\ pc' = "resolve"
                    /\ depth' = depth + 1
                    /\ UNCHANGED raised
               ELSE /\ pc' = "Failure"
                    /\ \E t \in {"RecursionError", "Exception"} :
                         raised' = [type |-> t, cause |-> "recursion"]
                    /\ UNCHANGED depth
       ELSE /\ pc' = "Failure"
            /\ raised' = [type |-> "Exception", cause |-> CauseOf(error_msg)]
            /\ UNCHANGED <<genai_api_key, depth>>
    /\ UNCHANGED <<GEMINI_API_KEY, user_api_keys, user_id, api_key, key_source,
                   error_msg, key_resp, history, result, prev_raised>>
    /\ UNCHANGED <<freshVars, restVars>>

NoCheck == [user |-> "", value |-> FALSE, reads |-> 0, caught |-> "",
            raised |-> FALSE, outcomes |-> <<>>]

EmptyStore == [u \in Users |-> <<>>]

\* Locals of one run_weekly_analysis request.
NoAnalysis == [status |-> "none", user_id |-> ""]
IdleRun == [pc |-> "idle", eligible |-> <<>>, users |-> <<>>,
            needed |-> FALSE, preferred_roles |-> <<>>,
            user_skills |-> <<>>, analysis |-> NoAnalysis, analysis_id |-> "",
            results |-> <<>>, errors |-> <<>>]

CronIdle ==
    /\ now = 1
    /\ user_preferred_roles = EmptyStore
    /\ user_skills = EmptyStore
    /\ reports = EmptyStore
    /\ run = [r \in Runs |-> IdleRun]

\* Locals of one of the concurrent analyze_skill_gap calls.
IdleCall == [pc |-> "idle", api_key |-> NoneVal, key_source |-> "", origin |-> "",
             depth |-> 0, error_msg |-> NoMsg, used |-> NoneVal,
             result |-> NoResult]

ConcIdle == calls = [u \in Users |-> IdleCall]

\* {} and None.
EmptyDict == [k \in KeyIds |-> NoneVal]
NoTimestamp == [set |-> FALSE, at |-> 0]

\* Locals of one get_api_key call.
IdleThread == [pc |-> "idle", key |-> "", checked_at |-> 0,
               ts_seen |-> NoTimestamp, contacted |-> FALSE, keys |-> <<>>,
               i |-> 0, ret |-> "", via |-> "", result |-> ""]

\* Lines 13-15: the module as imported.
CacheIdle ==
    /\ key_cache = "d0"
    /\ heap = [d \in Dicts |-> EmptyDict]
    /\ cache_timestamp = NoTimestamp
    /\ clock = 0
    /\ threads = [t \in Threads |-> IdleThread]

\* Locals of one request of the analysis router; before is the persisted
\* state of the user when the request came in.
NoState == [roles |-> <<>>, analyses |-> 0, reports |-> 0]
IdleHandler == [op |-> "idle", pc |-> "idle", user_id |-> "u1",
                todo |-> <<>>, api_key |-> "", key_id |-> 0, analysis_id |-> "",
                ai_called |-> FALSE, before |-> NoState, status |-> 0,
                served |-> 0]

ApiIdle == handlers = [h \in Handlers |-> IdleHandler]

RestIdle == CronIdle /\ ConcIdle /\ CacheIdle /\ ApiIdle

CredIdle ==
    /\ genai_api_key = NoKey
    /\ pc = "idle"
    /\ user_id = "u1"
    /\ api_key = NoneVal
    /\ key_source = ""
    /\ depth = 0
    /\ error_msg = NoMsg
    /\ key_resp = NoResp
    /\ history = <<>>
    /\ result = NoResult
    /\ raised = NoRaise
    /\ prev_raised = NoRaise

Init ==
    /\ skill_gap_analyses = EmptyStore
    /\ profiles = EmptyStore
    /\ github_connections = EmptyStore
    /\ check_result = NoCheck
    /\ GEMINI_API_KEY \in SystemKeyValues
    /\ user_api_keys \in {f \in [Users -> UNION {KeyRowOptions(u) : u \in Users}] :
                            \A u \in Users : f[u] \in KeyRowOptions(u)}
    /\ CredIdle
    /\ RestIdle

Next ==
    \/ \E u \in Users : Start(u)
    \/ Resolve
    \/ GenerateContent
    \/ HandleError

Spec == Init /\ [][Next]_vars

(***************************************************************************)
(* data_service.py: check_if_analysis_needed                               *)
(***************************************************************************)

\* Truth value of a JSON value used as a timestamp: null is falsy.
TsTruthy(ts) == ts.tz # "null"

\* s.replace('Z', '+00:00')
replace_Z(ts) == IF ts.tz = "Z" THEN Ts(ts.wall, "+00:00") ELSE ts

OffsetHours(z) == IF z = "+01:00" THEN 1 ELSE 0

\* datetime.fromisoformat: an aware datetime for a string with an offset, a
\* naive one for a string without; ValueError for anything else (a bare "Z"
\* is not accepted before Python 3.11), AttributeError/TypeError for a value
\* that is not a string.
fromisoformat(ts) ==
    IF ts.tz \in {"+00:00", "+01:00"}
    THEN [ok |-> TRUE, aware |-> TRUE, t |-> ts.wall - OffsetHours(ts.tz)]
    ELSE IF ts.tz = "naive"
         THEN [ok |-> TRUE, aware |-> FALSE, t |-> ts.wall]
         ELSE [ok |-> FALSE, aware |-> FALSE, t |-> 0]

\* x > y on datetimes: TypeError when exactly one of them is naive.
GreaterRaises(x, y) == x.aware # y.aware

CheckRes(v, n, exc) == [value |-> v, reads |-> n, caught |-> exc]

\* Mutant: the except block skips the user.
FailClosed(n, exc) == CheckRes(FALSE, n, exc)

\* Lines 262-264: any exception inside the try block is caught and the
\* function returns True.
FailOpen(n, exc) == CheckRes(TRUE, n, exc)

\* Mutant: a signal equal to the last analysis time counts as newer.
Greater_or_equal(x, y) == x.t >= y.t

\* x > y on two datetimes that can be compared.
Greater(x, y) == x.t > y.t

\* The order a row is returned in by order=analyzed_at.desc (nulls first).
SortKey(ts) == IF ts.tz = "null" THEN MaxWall + 1
               ELSE IF ts.tz = "+01:00" THEN ts.wall - 1 ELSE ts.wall

\* skill_gap_analyses?user_id=eq.U&select=analyzed_at&order=analyzed_at.desc&limit=1
LatestAnalysisRows(rows) ==
    IF rows = <<>> THEN <<>>
    ELSE LET i == CHOOSE i \in 1..Len(rows) :
                     \A j \in 1..Len(rows) :
                         SortKey(rows[i].analyzed_at) >= SortKey(rows[j].analyzed_at)
         IN <<rows[i]>>

Response(outcome, rows) == [outcome |-> outcome, json |-> IF outcome = "200" THEN rows ELSE <<>>]

\* Lines 225-227.
LastAnalysis(a) ==
    IF a.outcome = "200" /\ a.json # <<>> THEN a.json[1].analyzed_at ELSE NullTs

\* Mutant: the sync signal is never looked at.
CompareSync_ignored(last_dt, g) == CheckRes(FALSE, 3, "")

\* Lines 250-261: the sync signal against the last analysis time.
CompareSync(last_dt, g) ==
    IF g.outcome = "exception" THEN FailOpen(3, "RequestException")
    ELSE IF g.outcome = "200" /\ g.json # <<>> /\ TsTruthy(g.json[1].last_sync_at)
         THEN LET sync_dt == fromisoformat(replace_Z(g.json[1].last_sync_at)) IN
              IF ~sync_dt.ok THEN FailOpen(3, "ValueError")
              ELSE IF GreaterRaises(sync_dt, last_dt) THEN FailOpen(3, "TypeError")
              ELSE IF Greater(sync_dt, last_dt) THEN CheckRes(TRUE, 3, "")
              ELSE CheckRes(FALSE, 3, "")
         ELSE CheckRes(FALSE, 3, "")

\* Mutant: a newer resume does not return; the sync signal decides.
CompareSignals_no_resume_return(last_dt, p, g) ==
    IF p.outcome = "exception" THEN FailOpen(2, "RequestException")
    ELSE IF p.outcome = "200" /\ p.json # <<>> /\ TsTruthy(p.json[1].resume_uploaded_at)
         THEN LET resume_dt == fromisoformat(replace_Z(p.json[1].resume_uploaded_at)) IN
              IF ~resume_dt.ok THEN FailOpen(2, "ValueError")
              ELSE IF GreaterRaises(resume_dt, last_dt) THEN FailOpen(2, "TypeError")
              ELSE CompareSync(last_dt, g)
         ELSE CompareSync(last_dt, g)

\* Lines 239-261: the resume signal, then the sync signal.
CompareSignals(last_dt, p, g) ==
    IF p.outcome = "exception" THEN FailOpen(2, "RequestException")
    ELSE IF p.outcome = "200" /\ p.json # <<>> /\ TsTruthy(p.json[1].resume_uploaded_at)
         THEN LET resume_dt == fromisoformat(replace_Z(p.json[1].resume_uploaded_at)) IN
              IF ~resume_dt.ok THEN FailOpen(2, "ValueError")
              ELSE IF GreaterRaises(resume_dt, last_dt) THEN FailOpen(2, "TypeError")
              ELSE IF Greater(resume_dt, last_dt) THEN CheckRes(TRUE, 2, "")
              ELSE CompareSync(last_dt, g)
         ELSE CompareSync(last_dt, g)

\* Mutant: a user without a last analysis is compared as if analysed at hour 0.
check_if_analysis_needed_no_early_return(a, p, g) ==
    IF a.outcome = "exception" THEN FailOpen(1, "RequestException")
    ELSE LET last_analysis == LastAnalysis(a) IN
         IF ~TsTruthy(last_analysis)
         THEN CompareSignals([ok |-> TRUE, aware |-> TRUE, t |-> 0], p, g)
         ELSE IF last_analysis.tz = "nonstr" THEN CheckRes(TRUE, 1, "")
         ELSE LET last_analysis_dt == fromisoformat(replace_Z(last_analysis)) IN
              IF ~last_analysis_dt.ok THEN FailOpen(1, "ValueError")
              ELSE CompareSignals(last_analysis_dt, p, g)

\* Lines 221-264. a, p, g: the responses of the three reads, each used only
\* if the code gets as far as issuing the request.
check_if_analysis_needed(a, p, g) ==
    IF a.outcome = "exception" THEN FailOpen(1, "RequestException")
    ELSE LET last_analysis == LastAnalysis(a) IN
         IF ~TsTruthy(last_analysis) THEN CheckRes(TRUE, 1, "")
         ELSE IF last_analysis.tz = "nonstr" THEN CheckRes(TRUE, 1, "")
         ELSE LET last_analysis_dt == fromisoformat(replace_Z(last_analysis)) IN
              IF ~last_analysis_dt.ok THEN FailOpen(1, "ValueError")
              ELSE CompareSignals(last_analysis_dt, p, g)

\* Mutant: the check stamps the user as analysed at the hour of its resume.
CheckIfAnalysisNeeded_writes(u) ==
    /\ \E oa \in Outcomes, op \in Outcomes, og \in Outcomes :
         LET a == Response(oa, LatestAnalysisRows(skill_gap_analyses[u]))
             p == Response(op, profiles[u])
             g == Response(og, github_connections[u])
             r == check_if_analysis_needed(a, p, g)
         IN check_result' = [user |-> u, value |-> r.value, reads |-> r.reads,
                             caught |-> r.caught, raised |-> FALSE,
                             outcomes |-> <<oa, op, og>>]
    /\ skill_gap_analyses' =
          [skill_gap_analyses EXCEPT ![u] = <<[analyzed_at |-> Ts(MaxWall, "Z")]>>]
    /\ UNCHANGED <<profiles, github_connections>>
    /\ UNCHANGED <<credVars, restVars>>

\* One call of check_if_analysis_needed(u), as the cron run makes it.
CheckIfAnalysisNeeded(u) ==
    /\ \E oa \in Outcomes, op \in Outcomes, og \in Outcomes :
         LET a == Response(oa, LatestAnalysisRows(skill_gap_analyses[u]))
             p == Response(op, profiles[u])
             g == Response(og, github_connections[u])
             r == check_if_analysis_needed(a, p, g)
         IN check_result' = [user |-> u, value |-> r.value, reads |-> r.reads,
                             caught |-> r.caught, raised |-> FALSE,
                             outcomes |-> <<oa, op, og>>]
    /\ UNCHANGED <<skill_gap_analyses, profiles, github_connections>>
    /\ UNCHANGED <<credVars, restVars>>

\* The stores as the evaluator can find them: u1 with any history and signals,
\* u2 a user without data.
InitFresh ==
    /\ \E rows \in AnalysisRowOptions :
          skill_gap_analyses = [EmptyStore EXCEPT !["u1"] = rows]
    /\ \E rows \in ProfileRowOptions :
          profiles = [EmptyStore EXCEPT !["u1"] = rows]
    /\ \E rows \in GithubRowOptions :
          github_connections = [EmptyStore EXCEPT !["u1"] = rows]
    /\ check_result = NoCheck
    /\ GEMINI_API_KEY = ""
    /\ user_api_keys = EmptyStore
    /\ CredIdle
    /\ RestIdle

NextFresh == \E u \in Users : CheckIfAnalysisNeeded(u)

SpecFresh == InitFresh /\ [][NextFresh]_vars

(***************************************************************************)
(* cron.py: run_weekly_analysis                                            *)
(***************************************************************************)

\* The user the loop of run r is at.
CurrentUser(r) == Head(run[r].users)

\* End of one loop iteration (continue, the end of the body, or the except
\* block): the next user, or the return at lines 141-148.
NextUser(rec) ==
    [rec EXCEPT !.users = Tail(rec.users),
                !.pc = IF Tail(rec.users) = <<>> THEN "done" ELSE "check",
                !.needed = FALSE,
                !.preferred_roles = <<>>, !.user_skills = <<>>,
                !.analysis = NoAnalysis, !.analysis_id = ""]

\* Lines 55-60, 65-70, 74-79: results.append({... "status": "skipped" ...}).
Skipped(r) ==
    NextUser([run[r] EXCEPT !.results =
        Append(@, [user_id |-> CurrentUser(r), status |-> "skipped",
                   analysis_id |-> ""])])

\* Mutant: the failure of one user ends the run.
Errored_abort(r) ==
    [run[r] EXCEPT !.errors = Append(@, [user_id |-> CurrentUser(r)]),
                   !.pc = "raised"]

\* Lines 132-139: the except block of the loop body.
Errored(r) ==
    NextUser([run[r] EXCEPT !.errors = Append(@, [user_id |-> CurrentUser(r)])])

\* Lines 30-45: get_all_users_for_cron and the market data.
CronStart(r) ==
    /\ run[r].pc = "idle"
    /\ \E o \in Outcomes :
         LET users == IF o = "200" THEN <<"u1", "u2">> ELSE <<>> IN
         run' = [run EXCEPT ![r] =
                   IF o = "exception" THEN [@ EXCEPT !.pc = "raised"]
                   ELSE IF users = <<>> THEN [@ EXCEPT !.pc = "done"]
                   ELSE [@ EXCEPT !.pc = "check", !.eligible = users,
                                  !.users = users]]
    /\ UNCHANGED <<now, user_preferred_roles, user_skills, reports>>
    /\ UNCHANGED <<credVars, freshVars, auxVars>>

\* Mutant: the result of the check is not looked at.
AfterCheck_always(r, needed) ==
    [run[r] EXCEPT !.pc = "roles", !.needed = needed]

\* Lines 54-60: if not check_if_analysis_needed(user_id): skipped, continue.
AfterCheck(r, needed) ==
    IF needed THEN [run[r] EXCEPT !.pc = "roles", !.needed = needed]
    ELSE Skipped(r)

\* Lines 53-60: the smart-cron check of the current user.
CronCheck(r) ==
    /\ run[r].pc = "check"
    /\ \E oa \in Outcomes, op \in Outcomes, og \in Outcomes :
         LET u == CurrentUser(r)
             a == Response(oa, LatestAnalysisRows(skill_gap_analyses[u]))
             p == Response(op, profiles[u])
             g == Response(og, github_connections[u])
         IN run' = [run EXCEPT ![r] =
                      AfterCheck(r, check_if_analysis_needed(a, p, g).value)]
    /\ UNCHANGED <<now, user_preferred_roles, user_skills, reports>>
    /\ UNCHANGED <<credVars, freshVars, auxVars>>

\* Lines 63-70 with get_user_preferred_roles.
CronRoles(r) ==
    /\ run[r].pc = "roles"
    /\ \E o \in Outcomes :
         LET preferred_roles ==
                 IF o = "200" THEN user_preferred_roles[CurrentUser(r)] ELSE <<>>
         IN run' = [run EXCEPT ![r] =
                      IF o = "exception" THEN Errored(r)
                      ELSE IF preferred_roles = <<>>
                           THEN Skipped(r)
                           ELSE [@ EXCEPT !.pc = "skills",
                                          !.preferred_roles = preferred_roles]]
    /\ UNCHANGED <<now, user_preferred_roles, user_skills, reports>>
    /\ UNCHANGED <<credVars, freshVars, auxVars>>

\* Lines 72-79 with get_user_skills.
CronSkills(r) ==
    /\ run[r].pc = "skills"
    /\ \E o \in Outcomes :
         LET skills == IF o = "200" THEN user_skills[CurrentUser(r)] ELSE <<>>
         IN run' = [run EXCEPT ![r] =
                      IF o = "exception" THEN Errored(r)
                      ELSE IF skills = <<>> THEN Skipped(r)
                           ELSE [@ EXCEPT !.pc = "analyze", !.user_skills = skills]]
    /\ UNCHANGED <<now, user_preferred_roles, user_skills, reports>>
    /\ UNCHANGED <<credVars, freshVars, auxVars>>

\* Lines 82-91: analyze_skill_gap returns an analysis or raises.
CronAnalyze(r) ==
    /\ run[r].pc = "analyze"
    /\ \E o \in AnalysisOutcomes :
         run' = [run EXCEPT ![r] =
                   IF o \in {"ok", "parse_error"}
                   THEN [@ EXCEPT !.pc = "store",
                                  !.analysis = [status |-> o,
                                                user_id |-> CurrentUser(r)]]
                   ELSE Errored(r)]
    /\ UNCHANGED <<now, user_preferred_roles, user_skills, reports>>
    /\ UNCHANGED <<credVars, freshVars, auxVars>>

\* Mutant: the new row replaces the user's history.
store_analysis_result_upsert(rows, o, t) ==
    IF o = "exception" THEN [rows |-> rows, id |-> "", raises |-> TRUE]
    ELSE IF o = "201"
         THEN [rows |-> <<[analyzed_at |-> Ts(t, "+00:00")]>>,
               id |-> "analysis-id", raises |-> FALSE]
         ELSE [rows |-> rows, id |-> "", raises |-> FALSE]

\* data_service.store_analysis_result: one POST of a row stamped with the
\* current UTC time; the id of the row, or "" when the store refuses it.
store_analysis_result(rows, o, t) ==
    IF o = "exception" THEN [rows |-> rows, id |-> "", raises |-> TRUE]
    ELSE IF o = "201"
         THEN [rows |-> Append(rows, [analyzed_at |-> Ts(t, "+00:00")]),
               id |-> "analysis-id", raises |-> FALSE]
         ELSE [rows |-> rows, id |-> "", raises |-> FALSE]

\* Line 94.
CronStore(r) ==
    /\ run[r].pc = "store"
    /\ \E o \in PostOutcomes :
         LET u == CurrentUser(r)
             stored == store_analysis_result(skill_gap_analyses[u], o, now)
         IN /\ skill_gap_analyses' = [skill_gap_analyses EXCEPT ![u] = stored.rows]
            /\ run' = [run EXCEPT ![r] =
                         IF stored.raises THEN Errored(r)
                         ELSE [@ EXCEPT !.pc = "pdf", !.analysis_id = stored.id]]
    /\ UNCHANGED <<now, user_preferred_roles, user_skills, reports>>
    /\ UNCHANGED <<credVars, profiles, github_connections, check_result, auxVars>>

\* Lines 97-103: generate_pdf_report returns a buffer or raises.
CronPdf(r) ==
    /\ run[r].pc = "pdf"
    /\ \E ok \in BOOLEAN :
         run' = [run EXCEPT ![r] =
                   IF ok THEN [@ EXCEPT !.pc = "report"] ELSE Errored(r)]
    /\ UNCHANGED <<now, user_preferred_roles, user_skills, reports>>
    /\ UNCHANGED <<credVars, freshVars, auxVars>>

\* Lines 106-130: upload_to_supabase_storage returns the URL, or "" on any
\* failure; store_report_record posts the report row; the user is reported
\* as a success.
CronReport(r) ==
    /\ run[r].pc = "report"
    /\ \E o \in PostOutcomes, report_url \in {"", "report-url"} :
         LET u == CurrentUser(r) IN
         /\ reports' =
               IF o = "201"
               THEN [reports EXCEPT ![u] =
                       Append(@, [analysis_id |-> run[r].analysis_id,
                                  report_url |-> report_url])]
               ELSE reports
         /\ run' = [run EXCEPT ![r] =
                      IF o = "exception" THEN Errored(r)
                      ELSE NextUser([@ EXCEPT !.results =
                             Append(@, [user_id |-> u, status |-> "success",
                                        analysis_id |-> run[r].analysis_id])])]
    /\ UNCHANGED <<now, user_preferred_roles, user_skills>>
    /\ UNCHANGED <<credVars, freshVars, auxVars>>

\* Wall-clock time passes.
Tick ==
    /\ now < MaxWall
    /\ now' = now + 1
    /\ UNCHANGED <<user_preferred_roles, user_skills, reports, run>>
    /\ UNCHANGED <<credVars, freshVars, auxVars>>

\* Rows the service and its users can have left in the stores.
CronAnalysisRows == {<<>>, <<[analyzed_at |-> Ts(1, "+00:00")]>>}
CronProfileRows ==
    {<<[resume_uploaded_at |-> t]>> : t \in {NullTs, Ts(MaxWall, "Z")}}

\* u1 with or without history, signals, roles and skills; u2 a new user with
\* roles and skills.
InitCron ==
    /\ \E rows \in CronAnalysisRows :
          skill_gap_analyses = [EmptyStore EXCEPT !["u1"] = rows]
    /\ \E rows \in CronProfileRows :
          profiles = [u \in Users |-> IF u = "u1" THEN rows
                                     ELSE <<[resume_uploaded_at |-> NullTs]>>]
    /\ github_connections = EmptyStore
    /\ check_result = NoCheck
    /\ GEMINI_API_KEY = ""
    /\ user_api_keys = EmptyStore
    /\ CredIdle
    /\ now = 1
    /\ \E roles \in {<<>>, <<"Backend Developer">>} :
          user_preferred_roles = [u \in Users |-> IF u = "u1" THEN roles
                                                 ELSE <<"Data Engineer">>]
    /\ \E skills \in {<<>>, <<"python">>} :
          user_skills = [u \in Users |-> IF u = "u1" THEN skills ELSE <<"sql">>]
    /\ reports = EmptyStore
    /\ run = [r \in Runs |-> IdleRun]
    /\ ConcIdle
    /\ CacheIdle
    /\ ApiIdle

\* The steps of run r.
CronSteps(r) ==
    \/ CronStart(r)
    \/ CronCheck(r)
    \/ CronRoles(r)
    \/ CronSkills(r)
    \/ CronAnalyze(r)
    \/ CronStore(r)
    \/ CronPdf(r)
    \/ CronReport(r)

NextCron ==
    \/ Tick
    \/ \E r \in Runs : CronSteps(r)

SpecCron == InitCron /\ [][NextCron]_vars

\* The run of user u is between the read of the skills (line 72) and the
\* stamp of the AnalysisRecord (data_service.py line 97).
AnalysisInProgress(r, u) ==
    /\ run[r].pc \in {"analyze", "store"}
    /\ CurrentUser(r) = u

\* A resume upload of user u completes while the run analyses u: the profile
\* store gets resume_uploaded_at = the time of the upload (the column read at
\* data_service.py lines 240-246). Whatever is stamped afterwards is stamped
\* at a later time.
UploadResume(u) ==
    /\ AnalysisInProgress("run1", u)
    /\ now < MaxWall
    /\ profiles' = [profiles EXCEPT ![u] = <<[resume_uploaded_at |-> Ts(now, "Z")]>>]
    /\ now' = now + 1
    /\ UNCHANGED <<user_preferred_roles, user_skills, reports, run>>
    /\ UNCHANGED <<credVars, skill_gap_analyses, github_connections, check_result,
                   auxVars>>

\* No resume has been uploaded yet.
InitCronInput ==
    /\ InitCron
    /\ \A u \in Users : profiles[u] = <<[resume_uploaded_at |-> NullTs]>>

\* One run, and uploads that complete while it analyses the uploading user.
NextCronInput ==
    \/ Tick
    \/ CronSteps("run1")
    \/ \E u \in Users : UploadResume(u)

SpecCronInput == InitCronInput /\ [][NextCronInput]_vars

(***************************************************************************)
(* gemini_service.py: analyze_skill_gap calls of two users in worker       *)
(* threads; genai.configure writes one module-global key                   *)
(***************************************************************************)

\* A request of user u enters analyze_skill_gap.
ConcStart(u) ==
    /\ calls[u].pc = "idle"
    /\ calls' = [calls EXCEPT ![u].pc = "resolve"]
    /\ UNCHANGED <<GEMINI_API_KEY, user_api_keys, genai_api_key>>
    /\ UNCHANGED <<credLocals, freshVars, cronVars, cacheVars, apiVars>>

\* Line 72 of a frame: get_api_key_for_user.
ConcResolve(u) ==
    /\ calls[u].pc = "resolve"
    /\ \E resp \in UserKeyResponses(u) :
         LET r == get_api_key_for_user(resp) IN
         calls' = [calls EXCEPT ![u] =
                     IF r.raises
                     THEN [@ EXCEPT !.pc = "Failure", !.api_key = NoneVal,
                                    !.key_source = "", !.origin = "",
                                    !.used = NoneVal]
                     ELSE [@ EXCEPT !.pc = "configure", !.api_key = r.api_key,
                                    !.key_source = r.source, !.origin = r.origin,
                                    !.used = NoneVal]]
    /\ UNCHANGED <<GEMINI_API_KEY, user_api_keys, genai_api_key>>
    /\ UNCHANGED <<credLocals, freshVars, cronVars, cacheVars, apiVars>>

\* Lines 75-76 of a frame: genai.configure with the key this frame resolved.
ConcConfigure(u) ==
    /\ calls[u].pc = "configure"
    /\ genai_api_key' = Configure([api_key |-> calls[u].api_key,
                                   origin |-> calls[u].origin], genai_api_key)
    /\ calls' = [calls EXCEPT ![u].pc = "invoke"]
    /\ UNCHANGED <<GEMINI_API_KEY, user_api_keys>>
    /\ UNCHANGED <<credLocals, freshVars, cronVars, cacheVars, apiVars>>

\* Lines 221-248: generate_content is sent with the key that is configured
\* when the call is made.
ConcGenerate(u) ==
    /\ calls[u].pc = "invoke"
    /\ \E out \in {NoMsg, MsgQuota, MsgInternal} :
         calls' = [calls EXCEPT ![u] =
                     IF out = NoMsg
                     THEN [@ EXCEPT !.pc = "Success",
                                    !.used = genai_api_key.value,
                                    !.result = [status |-> "ok",
                                                api_key_source |-> calls[u].key_source]]
                     ELSE [@ EXCEPT !.pc = "except",
                                    !.used = genai_api_key.value,
                                    !.error_msg = out]]
    /\ UNCHANGED <<GEMINI_API_KEY, user_api_keys, genai_api_key>>
    /\ UNCHANGED <<credLocals, freshVars, cronVars, cacheVars, apiVars>>

\* Lines 250-265: the except block.
ConcHandleError(u) ==
    /\ calls[u].pc = "except"
    /\ IF TakesFallback(calls[u].error_msg, calls[u].key_source, GEMINI_API_KEY)
       THEN /\ genai_api_key' = [value |-> GEMINI_API_KEY, origin |-> "system"]
            /\ calls' = [calls EXCEPT ![u] =
                           IF @.depth < RecursionLimit
                           THEN [@ EXCEPT !.pc = "resolve", !.depth = @ + 1]
                           ELSE [@ EXCEPT !.pc = "Failure"]]
       ELSE /\ calls' = [calls EXCEPT ![u].pc = "Failure"]
            /\ UNCHANGED genai_api_key
    /\ UNCHANGED <<GEMINI_API_KEY, user_api_keys>>
    /\ UNCHANGED <<credLocals, freshVars, cronVars, cacheVars, apiVars>>

\* Each user with or without an own key, the system key set or not.
InitConc ==
    /\ skill_gap_analyses = EmptyStore
    /\ profiles = EmptyStore
    /\ github_connections = EmptyStore
    /\ check_result = NoCheck
    /\ GEMINI_API_KEY \in {"", "AIza-system"}
    /\ user_api_keys \in {f \in [Users -> UNION {KeyRowOptions(u) : u \in Users}] :
                            \A u \in Users :
                               f[u] \in {<<>>, <<KeyRow(UserKey(u), TRUE)>>}}
    /\ CredIdle
    /\ RestIdle

NextConc ==
    \E u \in Users :
       \/ ConcStart(u)
       \/ ConcResolve(u)
       \/ ConcConfigure(u)
       \/ ConcGenerate(u)
       \/ ConcHandleError(u)

SpecConc == InitConc /\ [][NextConc]_vars

(***************************************************************************)
(* key_service.py: the cache of system-wide keys                           *)
(***************************************************************************)

\* Mutant: a cache of exactly CACHE_DURATION is still served.
CacheValid_inclusive(ts, t) == ts.set /\ (t - ts.at) <= CACHE_DURATION

\* Line 24: _cache_timestamp and (datetime.now() - _cache_timestamp) < CACHE_DURATION
CacheValid(ts, t) == ts.set /\ (t - ts.at) < CACHE_DURATION

\* Dict objects something still refers to.
Referenced == {key_cache} \cup {threads[t].ret : t \in Threads}

\* The object a {} expression creates.
NewDict == CHOOSE d \in Dicts : d \notin Referenced

\* The heap with the objects nothing refers to any more freed.
Collect(h, global, locals) ==
    [d \in Dicts |->
        IF d = global \/ \E t \in Threads : locals[t].ret = d THEN h[d]
        ELSE EmptyDict]

\* A thread enters get_api_key(service_name, key_name) at line 67.
CallGetApiKey(t, k) ==
    /\ threads[t].pc \in {"idle", "done"}
    /\ threads' = [threads EXCEPT ![t] = [IdleThread EXCEPT !.pc = "check", !.key = k]]
    /\ UNCHANGED <<key_cache, heap, cache_timestamp, clock>>
    /\ UNCHANGED nonCacheVars

\* Lines 24-25: return the cached dict if the timestamp is still valid.
CheckCache(t) ==
    /\ threads[t].pc = "check"
    /\ threads' = [threads EXCEPT ![t] =
          IF CacheValid(cache_timestamp, clock)
          THEN [@ EXCEPT !.pc = "lookup", !.ret = key_cache, !.via = "cache",
                         !.checked_at = clock, !.ts_seen = cache_timestamp]
          ELSE [@ EXCEPT !.pc = "request",
                         !.checked_at = clock, !.ts_seen = cache_timestamp]]
    /\ UNCHANGED <<key_cache, heap, cache_timestamp, clock>>
    /\ UNCHANGED nonCacheVars

\* Lines 27-42: the GET on admin_api_keys.
RequestKeys(t) ==
    /\ threads[t].pc = "request"
    /\ \E o \in Outcomes :
         threads' = [threads EXCEPT ![t] =
            IF o = "200"
            THEN [@ EXCEPT !.pc = "rebind", !.contacted = TRUE, !.keys = AdminApiKeys]
            ELSE [@ EXCEPT !.pc = "failed", !.contacted = TRUE]]
    /\ UNCHANGED <<key_cache, heap, cache_timestamp, clock>>
    /\ UNCHANGED nonCacheVars

\* Line 43: _key_cache = {}
RebindCache(t) ==
    /\ threads[t].pc = "rebind"
    /\ key_cache' = NewDict
    /\ heap' = Collect(heap, NewDict, threads)
    /\ threads' = [threads EXCEPT ![t].pc = "fill", ![t].i = 1]
    /\ UNCHANGED <<cache_timestamp, clock>>
    /\ UNCHANGED nonCacheVars

\* Lines 44-46: one iteration stores one key in the dict the global names.
FillCache(t) ==
    /\ threads[t].pc = "fill"
    /\ IF threads[t].i <= Len(threads[t].keys)
       THEN LET key == threads[t].keys[threads[t].i] IN
            /\ heap' = [heap EXCEPT ![key_cache][key.id] = key.key_value]
            /\ threads' = [threads EXCEPT ![t].i = @ + 1]
       ELSE /\ threads' = [threads EXCEPT ![t].pc = "stamp"]
            /\ UNCHANGED heap
    /\ UNCHANGED <<key_cache, cache_timestamp, clock>>
    /\ UNCHANGED nonCacheVars

\* Line 47: _cache_timestamp = datetime.now()
StampCache(t) ==
    /\ threads[t].pc = "stamp"
    /\ cache_timestamp' = [set |-> TRUE, at |-> clock]
    /\ threads' = [threads EXCEPT ![t].pc = "return"]
    /\ UNCHANGED <<key_cache, heap, clock>>
    /\ UNCHANGED nonCacheVars

\* Line 48: return _key_cache
ReturnFetched(t) ==
    /\ threads[t].pc = "return"
    /\ threads' = [threads EXCEPT ![t].pc = "lookup", ![t].ret = key_cache,
                                  ![t].via = "fetch"]
    /\ UNCHANGED <<key_cache, heap, cache_timestamp, clock>>
    /\ UNCHANGED nonCacheVars

\* Lines 49-52: after a failed request, return _key_cache as it is.
ReturnStale(t) ==
    /\ threads[t].pc = "failed"
    /\ threads' = [threads EXCEPT ![t].pc = "lookup", ![t].ret = key_cache,
                                  ![t].via = "stale"]
    /\ UNCHANGED <<key_cache, heap, cache_timestamp, clock>>
    /\ UNCHANGED nonCacheVars

\* Lines 68-69: keys.get(key_identifier) or fallback or "", no fallback
\* given; the call returns and its dict reference is dropped.
LookupKey(t) ==
    /\ threads[t].pc = "lookup"
    /\ LET value == heap[threads[t].ret][threads[t].key] IN
       threads' = [threads EXCEPT ![t].pc = "done",
                                  ![t].result = IF Truthy(value) THEN value ELSE "",
                                  ![t].keys = <<>>, ![t].i = 0, ![t].ret = ""]
    /\ heap' = Collect(heap, key_cache, threads')
    /\ UNCHANGED <<key_cache, cache_timestamp, clock>>
    /\ UNCHANGED nonCacheVars

\* Lines 115-119, called while no get_api_key call is in progress.
clear_cache ==
    /\ \A t \in Threads : threads[t].pc \in {"idle", "done"}
    /\ key_cache' = NewDict
    /\ heap' = Collect(heap, NewDict, threads)
    /\ cache_timestamp' = NoTimestamp
    /\ UNCHANGED <<clock, threads>>
    /\ UNCHANGED nonCacheVars

\* A minute passes.
TickClock ==
    /\ clock < MaxClock
    /\ clock' = clock + 1
    /\ UNCHANGED <<key_cache, heap, cache_timestamp, threads>>
    /\ UNCHANGED nonCacheVars

InitCache ==
    /\ skill_gap_analyses = EmptyStore
    /\ profiles = EmptyStore
    /\ github_connections = EmptyStore
    /\ check_result = NoCheck
    /\ GEMINI_API_KEY = ""
    /\ user_api_keys = EmptyStore
    /\ CredIdle
    /\ RestIdle

\* The steps of a get_api_key call of thread t.
GetApiKeySteps(t) ==
    \/ \E k \in KeyIds : CallGetApiKey(t, k)
    \/ CheckCache(t)
    \/ RequestKeys(t)
    \/ RebindCache(t)
    \/ FillCache(t)
    \/ StampCache(t)
    \/ ReturnFetched(t)
    \/ ReturnStale(t)
    \/ LookupKey(t)

\* One caller at a time.
NextCache ==
    \/ GetApiKeySteps("t1")
    \/ clear_cache
    \/ TickClock

SpecCache == InitCache /\ [][NextCache]_vars

\* Callers in two worker threads.
NextCacheConc ==
    \/ \E t \in Threads : GetApiKeySteps(t)
    \/ clear_cache
    \/ TickClock

SpecCacheConc == InitCache /\ [][NextCacheConc]_vars

(***************************************************************************)
(* analysis.py: POST /roles, POST /api-key and generate_analysis, each     *)
(* request served by a worker thread; data_service.set_preferred_roles and *)
(* save_user_api_key with one step per HTTP request to the store           *)
(***************************************************************************)

\* roles[:3] and len(request.roles) > 3.
MaxRoles == 3
\* len(request.api_key) < 10.
MinKeyLen == 10

Take(seq, n) == SubSeq(seq, 1, IF Len(seq) < n THEN Len(seq) ELSE n)

\* Everything the requests of the router neither read nor write.
apiOther == <<GEMINI_API_KEY, genai_api_key, credLocals, profiles,
              github_connections, check_result, now, user_skills, run,
              concVars, cacheVars>>

\* The persisted state of user u the router can change.
Persisted(u) == [roles |-> user_preferred_roles[u],
                 analyses |-> Len(skill_gap_analyses[u]),
                 reports |-> Len(reports[u])]

RECURSIVE RequestsServed(_)
RequestsServed(hs) ==
    IF hs = {} THEN 0
    ELSE LET h == CHOOSE x \in hs : TRUE
         IN handlers[h].served + RequestsServed(hs \ {h})

CanServe(h) ==
    /\ handlers[h].pc \in {"idle", "done"}
    /\ RequestsServed(Handlers) < MaxRequests

\* A request of user u comes in at worker h.
Begin(h, op, u) ==
    [IdleHandler EXCEPT !.op = op, !.user_id = u, !.before = Persisted(u),
                        !.served = handlers[h].served + 1]

\* The response is sent.
Respond(rec, status) == [rec EXCEPT !.pc = "done", !.status = status, !.todo = <<>>]

\* set_preferred_roles has returned: POST /roles answers (line 195),
\* generate_analysis goes on with the skills (line 71).
AfterSetRoles(rec) ==
    IF rec.op = "roles" THEN Respond(rec, 200) ELSE [rec EXCEPT !.pc = "skills"]

\* analysis.py lines 185-195: more than three roles are refused.
SetUserPreferredRoles(h, u, roles) ==
    /\ CanServe(h)
    /\ handlers' = [handlers EXCEPT ![h] =
                      IF Len(roles) > MaxRoles THEN Respond(Begin(h, "roles", u), 400)
                      ELSE [Begin(h, "roles", u) EXCEPT !.pc = "delete",
                                                        !.todo = Take(roles, MaxRoles)]]
    /\ UNCHANGED <<user_preferred_roles, user_api_keys, skill_gap_analyses, reports>>
    /\ UNCHANGED apiOther

\* data_service.py lines 158-159: the DELETE, whose response is not looked at.
SetRolesDelete(h) ==
    /\ handlers[h].pc = "delete"
    /\ \E o \in Outcomes :
         LET u == handlers[h].user_id IN
         /\ user_preferred_roles' =
               IF o = "200" THEN [user_preferred_roles EXCEPT ![u] = <<>>]
               ELSE user_preferred_roles
         /\ handlers' = [handlers EXCEPT ![h] =
                           IF o = "exception" THEN Respond(@, 500)
                           ELSE IF @.todo = <<>> THEN AfterSetRoles(@)
                                ELSE [@ EXCEPT !.pc = "insert"]]
    /\ UNCHANGED <<user_api_keys, skill_gap_analyses, reports>>
    /\ UNCHANGED apiOther

\* data_service.py lines 163-173: one POST per role.
SetRolesInsert(h) ==
    /\ handlers[h].pc = "insert"
    /\ \E o \in PostOutcomes :
         LET u == handlers[h].user_id
             rest == Tail(handlers[h].todo)
         IN
         /\ user_preferred_roles' =
               IF o = "201"
               THEN [user_preferred_roles EXCEPT ![u] = Append(@, Head(handlers[h].todo))]
               ELSE user_preferred_roles
         /\ handlers' = [handlers EXCEPT ![h] =
                           IF o = "exception" THEN Respond(@, 500)
                           ELSE IF rest = <<>> THEN AfterSetRoles([@ EXCEPT !.todo = rest])
                                ELSE [@ EXCEPT !.todo = rest]]
    /\ UNCHANGED <<user_api_keys, skill_gap_analyses, reports>>
    /\ UNCHANGED apiOther

\* analysis.py lines 41-49: the request comes in, with or without roles.
GenerateAnalysis(h, u, roles) ==
    /\ CanServe(h)
    /\ handlers' = [handlers EXCEPT ![h] =
                      [Begin(h, "generate", u) EXCEPT !.pc = "profile", !.todo = roles]]
    /\ UNCHANGED <<user_preferred_roles, user_api_keys, skill_gap_analyses, reports>>
    /\ UNCHANGED apiOther

\* Lines 51-62: get_user_profile, 404 without a profile; the roles of the
\* request, cut to three, are saved.
GenProfile(h) ==
    /\ handlers[h].pc = "profile"
    /\ \E o \in Outcomes :
         LET profile == IF o = "200" THEN profiles[handlers[h].user_id] ELSE <<>> IN
         handlers' = [handlers EXCEPT ![h] =
                        IF o = "exception" THEN Respond(@, 500)
                        ELSE IF profile = <<>> THEN Respond(@, 404)
                        ELSE IF @.todo # <<>>
                             THEN [@ EXCEPT !.pc = "delete",
                                            !.todo = Take(@, MaxRoles)]
                             ELSE [@ EXCEPT !.pc = "roles"]]
    /\ UNCHANGED <<user_preferred_roles, user_api_keys, skill_gap_analyses, reports>>
    /\ UNCHANGED apiOther

\* Lines 63-69: get_user_preferred_roles, 400 without roles.
GenRoles(h) ==
    /\ handlers[h].pc = "roles"
    /\ \E o \in Outcomes :
         LET preferred_roles ==
                 IF o = "200" THEN user_preferred_roles[handlers[h].user_id] ELSE <<>>
         IN handlers' = [handlers EXCEPT ![h] =
                           IF o = "exception" THEN Respond(@, 500)
                           ELSE IF preferred_roles = <<>> THEN Respond(@, 400)
                           ELSE [@ EXCEPT !.pc = "skills"]]
    /\ UNCHANGED <<user_preferred_roles, user_api_keys, skill_gap_analyses, reports>>
    /\ UNCHANGED apiOther

\* Lines 71-77: get_user_skills, 400 without skills.
GenSkills(h) ==
    /\ handlers[h].pc = "skills"
    /\ \E o \in Outcomes :
         LET skills == IF o = "200" THEN user_skills[handlers[h].user_id] ELSE <<>> IN
         handlers' = [handlers EXCEPT ![h] =
                        IF o = "exception" THEN Respond(@, 500)
                        ELSE IF skills = <<>> THEN Respond(@, 400)
                        ELSE [@ EXCEPT !.pc = "analyze"]]
    /\ UNCHANGED <<user_preferred_roles, user_api_keys, skill_gap_analyses, reports>>
    /\ UNCHANGED apiOther

\* Lines 79-94: the market data and analyze_skill_gap.
GenAnalyze(h) ==
    /\ handlers[h].pc = "analyze"
    /\ \E o \in AnalysisOutcomes :
         handlers' = [handlers EXCEPT ![h] =
                        IF o \in {"ok", "parse_error"}
                        THEN [@ EXCEPT !.pc = "store", !.ai_called = TRUE]
                        ELSE Respond([@ EXCEPT !.ai_called = TRUE], 500)]
    /\ UNCHANGED <<user_preferred_roles, user_api_keys, skill_gap_analyses, reports>>
    /\ UNCHANGED apiOther

\* Line 97: store_analysis_result.
GenStore(h) ==
    /\ handlers[h].pc = "store"
    /\ \E o \in PostOutcomes :
         LET u == handlers[h].user_id
             stored == store_analysis_result(skill_gap_analyses[u], o, now)
         IN /\ skill_gap_analyses' = [skill_gap_analyses EXCEPT ![u] = stored.rows]
            /\ handlers' = [handlers EXCEPT ![h] =
                              IF stored.raises THEN Respond(@, 500)
                              ELSE [@ EXCEPT !.pc = "report",
                                             !.analysis_id = stored.id]]
    /\ UNCHANGED <<user_preferred_roles, user_api_keys, reports>>
    /\ UNCHANGED apiOther

\* Lines 99-141: the PDF, the upload, store_report_record and the answer.
GenReport(h) ==
    /\ handlers[h].pc = "report"
    /\ \E pdf \in BOOLEAN, o \in PostOutcomes, report_url \in {"", "report-url"} :
         LET u == handlers[h].user_id IN
         /\ reports' =
               IF pdf /\ o = "201"
               THEN [reports EXCEPT ![u] =
                       Append(@, [analysis_id |-> handlers[h].analysis_id,
                                  report_url |-> report_url])]
               ELSE reports
         /\ handlers' = [handlers EXCEPT ![h] =
                           IF ~pdf \/ o = "exception" THEN Respond(@, 500)
                           ELSE Respond(@, 200)]
    /\ UNCHANGED <<user_preferred_roles, user_api_keys, skill_gap_analyses>>
    /\ UNCHANGED apiOther

\* analysis.py lines 205-217: an empty or short key is refused.
SetGeminiApiKey(h, u, k) ==
    /\ CanServe(h)
    /\ handlers' = [handlers EXCEPT ![h] =
                      IF k = "" \/ ApiKeyLen(k) < MinKeyLen
                      THEN Respond(Begin(h, "api-key", u), 400)
                      ELSE [Begin(h, "api-key", u) EXCEPT !.pc = "check",
                                                          !.api_key = k]]
    /\ UNCHANGED <<user_preferred_roles, user_api_keys, skill_gap_analyses, reports>>
    /\ UNCHANGED apiOther

\* data_service.py lines 188-189 and 200-202: the GET of the user's rows, in
\* the order the store answers them; the id of the first one.
SaveKeyCheck(h) ==
    /\ handlers[h].pc = "check"
    /\ \E o \in Outcomes :
         LET rows == IF o = "200" THEN user_api_keys[handlers[h].user_id] ELSE <<>> IN
         IF o = "exception"
         THEN handlers' = [handlers EXCEPT ![h] = Respond(@, 500)]
         ELSE IF rows # <<>>
              THEN \E id \in 1..Len(rows) :
                     handlers' = [handlers EXCEPT ![h].pc = "patch", ![h].key_id = id]
              ELSE handlers' = [handlers EXCEPT ![h].pc = "post"]
    /\ UNCHANGED <<user_preferred_roles, user_api_keys, skill_gap_analyses, reports>>
    /\ UNCHANGED apiOther

\* Lines 203-205: the PATCH of that row, whose response is not looked at.
SaveKeyPatch(h) ==
    /\ handlers[h].pc = "patch"
    /\ \E o \in Outcomes :
         LET u == handlers[h].user_id IN
         /\ user_api_keys' =
               IF o = "200"
               THEN [user_api_keys EXCEPT ![u][handlers[h].key_id] =
                       KeyRow(handlers[h].api_key, TRUE)]
               ELSE user_api_keys
         /\ handlers' = [handlers EXCEPT ![h] =
                           Respond(@, IF o = "exception" THEN 500 ELSE 200)]
    /\ UNCHANGED <<user_preferred_roles, skill_gap_analyses, reports>>
    /\ UNCHANGED apiOther

\* Lines 206-210: the POST of a new row, whose response is not looked at.
SaveKeyPost(h) ==
    /\ handlers[h].pc = "post"
    /\ \E o \in PostOutcomes :
         LET u == handlers[h].user_id IN
         /\ user_api_keys' =
               IF o = "201"
               THEN [user_api_keys EXCEPT ![u] = Append(@, KeyRow(handlers[h].api_key, TRUE))]
               ELSE user_api_keys
         /\ handlers' = [handlers EXCEPT ![h] =
                           Respond(@, IF o = "exception" THEN 500 ELSE 200)]
    /\ UNCHANGED <<user_preferred_roles, skill_gap_analyses, reports>>
    /\ UNCHANGED apiOther

\* Stores of the router: u1 with a profile, with or without roles and
\* skills; u2 without a profile.
InitApi ==
    /\ skill_gap_analyses = EmptyStore
    /\ profiles = [EmptyStore EXCEPT !["u1"] = <<[resume_uploaded_at |-> NullTs]>>]
    /\ github_connections = EmptyStore
    /\ check_result = NoCheck
    /\ GEMINI_API_KEY = "AIza-system"
    /\ user_api_keys = EmptyStore
    /\ CredIdle
    /\ now = 1
    /\ \E roles \in {<<>>, <<"Backend Developer">>} :
          user_preferred_roles = [EmptyStore EXCEPT !["u1"] = roles]
    /\ \E skills \in {<<>>, <<"python">>} :
          user_skills = [EmptyStore EXCEPT !["u1"] = skills]
    /\ reports = EmptyStore
    /\ run = [r \in Runs |-> IdleRun]
    /\ ConcIdle
    /\ CacheIdle
    /\ ApiIdle

\* The steps of set_preferred_roles.
SetRolesSteps(h) == SetRolesDelete(h) \/ SetRolesInsert(h)

\* The steps of generate_analysis.
GenerateSteps(h) ==
    \/ \E u \in Users, roles \in RoleRequests : GenerateAnalysis(h, u, roles)
    \/ GenProfile(h)
    \/ GenRoles(h)
    \/ GenSkills(h)
    \/ GenAnalyze(h)
    \/ GenStore(h)
    \/ GenReport(h)

\* POST /roles and generate_analysis requests of two workers.
NextRoles ==
    \E h \in Handlers :
       \/ \E u \in Users, roles \in RoleRequests : SetUserPreferredRoles(h, u, roles)
       \/ SetRolesSteps(h)
       \/ GenerateSteps(h)

SpecRoles == InitApi /\ [][NextRoles]_vars

\* generate_analysis requests, one at a time.
NextGenerate == GenerateSteps("h1") \/ SetRolesSteps("h1")

SpecGenerate == InitApi /\ [][NextGenerate]_vars

\* POST /api-key requests of two workers.
NextKeys ==
    \E h \in Handlers :
       \/ \E u \in Users, k \in ApiKeyRequests : SetGeminiApiKey(h, u, k)
       \/ SaveKeyCheck(h)
       \/ SaveKeyPatch(h)
       \/ SaveKeyPost(h)

SpecKeys == InitApi /\ [][NextKeys]_vars

(***************************************************************************)
(* Properties of the credential resolver and the quota fallback            *)
(***************************************************************************)

Terminal == pc \in {"Success", "Failure"}

Blank(v) == v \in {NoneVal, "", " "}

\* The active rows the store holds for the user of the running call.
ActiveRows(u) == SelectRows(user_api_keys[u], TRUE)

HasActiveUserKey(u) ==
    ActiveRows(u) # <<>> /\ Truthy(ActiveRows(u)[1].api_key_encrypted)

LookupFailed == key_resp.outcome \in {"500", "exception"}

\* C1: with an active user key and a system key configured, if the first AI
\* invocation fails with a quota error and the second succeeds, the call ends
\* in Success after exactly two invocations, the second made with the system
\* key and the result tagged api_key_source = system.
C1_FallbackUsesSystemKey ==
    ( /\ Terminal
      /\ HasActiveUserKey(user_id)
      /\ ~Blank(GEMINI_API_KEY)
      /\ Len(history) >= 1
      /\ history[1].origin = "user"
      /\ history[1].error \in QuotaErrors
      /\ (Len(history) >= 2 => history[2].error = NoMsg) )
    => /\ pc = "Success"
       /\ Len(history) = 2
       /\ history[2].origin = "system"
       /\ result.api_key_source = "system"

\* C2: one call of analyze_skill_gap invokes the AI operation at most twice
\* and never retries a second time.
C2_AtMostTwoInvocations == Len(history) <= 2 /\ depth <= 1

\* C3: on every successful return the api_key_source tag equals the scope of
\* the key the client was configured with for the invocation that produced
\* the result, on the direct path and after a fallback.
C3_TagIsScopeUsed ==
    pc = "Success" =>
        /\ Len(history) >= 1
        /\ history[Len(history)].error = NoMsg
        /\ result.api_key_source = history[Len(history)].origin

\* C3 witness: a success after a fallback, served by the system key.
C3_Witness ==
    /\ pc = "Success"
    /\ depth = 1
    /\ history[1].origin = "user"
    /\ history[2].origin = "system"
    /\ result.api_key_source = "system"

\* C4: a non-quota error of the AI operation is surfaced without a retry: the
\* operation is invoked exactly once, whatever the scope in use and whether or
\* not a system key exists.
C4_NonQuotaNoRetry ==
    ( /\ Len(history) >= 1
      /\ history[1].error # NoMsg
      /\ history[1].error \notin QuotaErrors )
    => /\ Len(history) = 1
       /\ depth = 0
       /\ pc \in {"except", "Failure"}

\* C5: the fallback retry is taken only from a quota failure of a user-scoped
\* key while a non-empty system key is configured; a quota failure of the
\* system key, or one without a system key, ends in Failure after exactly one
\* invocation.
C5_FallbackOnlyFromUserQuota ==
    /\ \A k \in 1..depth :
          /\ history[k].error \in QuotaErrors
          /\ history[k].origin = "user"
          /\ GEMINI_API_KEY # ""
    /\ ( /\ Len(history) >= 1
         /\ history[1].error \in QuotaErrors
         /\ (history[1].origin = "system" \/ GEMINI_API_KEY = "") )
       => /\ Len(history) = 1
          /\ depth = 0
          /\ pc \in {"except", "Failure"}

C7_NeverBlankKey ==
    /\ pc \in {"invoke", "except", "Success"} => ~Blank(api_key)
    /\ \A k \in 1..Len(history) : ~Blank(history[k].value)
    /\ ( /\ key_resp # NoResp
         /\ depth = 0
         /\ Blank(get_user_gemini_key(key_resp))
         /\ Blank(GEMINI_API_KEY) )
       => /\ pc = "Failure"
          /\ raised.type = "ValueError"
          /\ history = <<>>

\* C8: the three failure causes (no credential, quota exhausted, non-quota
\* upstream failure) reach the caller as pairwise distinct error kinds: two
\* calls that failed for different causes raised different exception types.
C8_DistinctErrorKinds ==
    ( /\ pc = "Failure"
      /\ raised.cause \in {"no_credential", "quota", "upstream"}
      /\ prev_raised.cause \in {"no_credential", "quota", "upstream"}
      /\ raised.cause # prev_raised.cause )
    => raised.type # prev_raised.type

Checked == check_result.user # ""

\* C10: for a user with no AnalysisRecord check_if_analysis_needed returns
\* true, whatever the resume and sync signals are, and it reads neither of
\* them.
C10_NoRecordNeedsAnalysis ==
    (Checked /\ skill_gap_analyses[check_result.user] = <<>>)
    => /\ check_result.value = TRUE
       /\ check_result.reads = 1
       /\ ~check_result.raised

\* C10 witness: no record, the history read succeeded, and both signals are
\* present.
C10_Witness ==
    /\ Checked
    /\ check_result.user = "u1"
    /\ skill_gap_analyses["u1"] = <<>>
    /\ check_result.outcomes[1] = "200"
    /\ profiles["u1"] # <<>> /\ profiles["u1"][1].resume_uploaded_at = Ts(1, "Z")
    /\ github_connections["u1"] # <<>>
    /\ github_connections["u1"][1].last_sync_at = Ts(1, "+01:00")
    /\ check_result.value = TRUE
    /\ check_result.reads = 1

\* The values the stores hold for a user.
LastOf(u)   == LatestAnalysisRows(skill_gap_analyses[u])[1].analyzed_at
ResumeOf(u) == IF profiles[u] = <<>> THEN NullTs ELSE profiles[u][1].resume_uploaded_at
SyncOf(u)   == IF github_connections[u] = <<>> THEN NullTs
               ELSE github_connections[u][1].last_sync_at

\* The instant a timestamp string denotes, in hours.
Instant(ts) == IF ts.tz = "+01:00" THEN ts.wall - 1 ELSE ts.wall

IsAware(ts) == ts.tz \in {"Z", "+00:00", "+01:00"}
WellFormed(ts) == IsAware(ts) \/ ts.tz = "naive"

\* A signal that is absent, or a timestamp that orders against the last one.
Comparable(sig, last) ==
    TsTruthy(sig) => (WellFormed(sig) /\ IsAware(sig) = IsAware(last))

Later(sig, last) == TsTruthy(sig) /\ Instant(sig) > Instant(last)

HasRecord(u) == skill_gap_analyses[u] # <<>>

\* The user has a last analysis time and signals that order against it.
WellFormedStores(u) ==
    /\ HasRecord(u)
    /\ WellFormed(LastOf(u))
    /\ Comparable(ResumeOf(u), LastOf(u))
    /\ Comparable(SyncOf(u), LastOf(u))

AllReadsOk == check_result.outcomes = <<"200", "200", "200">>

\* C11: when all three reads succeed with well-formed timestamps, the result
\* is true exactly if there is no AnalysisRecord, or the resume signal is
\* present and strictly later than the last analysis, or the sync signal is.
C11_TrueIffStale ==
    LET u == check_result.user IN
    (Checked /\ AllReadsOk /\ (HasRecord(u) => WellFormedStores(u)))
    => ( check_result.value <=>
           \/ ~HasRecord(u)
           \/ Later(ResumeOf(u), LastOf(u))
           \/ Later(SyncOf(u), LastOf(u)) )

\* C11 witness: analysed at hour 2, resume uploaded at hour 1, no sync: false.
C11_Witness ==
    /\ Checked /\ AllReadsOk
    /\ check_result.user = "u1"
    /\ skill_gap_analyses["u1"] = <<[analyzed_at |-> Ts(2, "Z")]>>
    /\ profiles["u1"] = <<[resume_uploaded_at |-> Ts(1, "Z")]>>
    /\ github_connections["u1"] = <<>>
    /\ check_result.value = FALSE

\* C12: a signal equal to the last analysis time does not trigger: when the
\* last analysis time was read and no read raised, and every present signal
\* is equal to or earlier than it, the result is false.
C12_TieIsNoChange ==
    LET u == check_result.user IN
    ( /\ Checked
      /\ check_result.outcomes[1] = "200"
      /\ check_result.outcomes[2] # "exception"
      /\ check_result.outcomes[3] # "exception"
      /\ HasRecord(u) /\ WellFormedStores(u)
      /\ ~Later(ResumeOf(u), LastOf(u))
      /\ ~Later(SyncOf(u), LastOf(u)) )
    => check_result.value = FALSE

\* C12 witness: resume and sync denote the instant of the last analysis.
C12_Witness ==
    /\ Checked /\ AllReadsOk
    /\ check_result.user = "u1"
    /\ skill_gap_analyses["u1"] = <<[analyzed_at |-> Ts(1, "Z")]>>
    /\ profiles["u1"] = <<[resume_uploaded_at |-> Ts(2, "+01:00")]>>
    /\ github_connections["u1"] = <<[last_sync_at |-> Ts(1, "Z")]>>
    /\ check_result.value = FALSE

\* C13: whenever the resume_uploaded_at that is read is strictly later than
\* the last analysis time, the result is true whatever the sync signal is:
\* absent, earlier, later, or its store unreachable.
C13_NewerResumeWins ==
    LET u == check_result.user IN
    ( /\ Checked
      /\ check_result.outcomes[2] # "500"
      /\ HasRecord(u) /\ WellFormed(LastOf(u))
      /\ Comparable(ResumeOf(u), LastOf(u))
      /\ Later(ResumeOf(u), LastOf(u)) )
    => /\ check_result.value = TRUE
       /\ check_result.reads <= 2

\* C13 witness: a newer resume, the sync store unreachable.
C13_Witness ==
    /\ Checked
    /\ check_result.user = "u1"
    /\ check_result.outcomes = <<"200", "200", "exception">>
    /\ skill_gap_analyses["u1"] = <<[analyzed_at |-> Ts(1, "Z")]>>
    /\ profiles["u1"] = <<[resume_uploaded_at |-> Ts(2, "Z")]>>
    /\ check_result.value = TRUE
    /\ check_result.reads = 2

\* A read that fails: the collaborator is unreachable or times out (the
\* request raises), or the timestamp it returns cannot be parsed.
ReadFails(i, ts) ==
    \/ check_result.outcomes[i] = "exception"
    \/ check_result.outcomes[i] = "200" /\ ts = BadTs

\* C14: check_if_analysis_needed never raises; if the read of the last
\* analysis time, of the profile signal or of the sync signal fails, it
\* returns true.
C14_FailsOpen ==
    LET u == check_result.user IN
    Checked =>
      /\ ~check_result.raised
      /\ ( \/ ReadFails(1, IF HasRecord(u) THEN LastOf(u) ELSE NullTs)
           \/ ReadFails(2, ResumeOf(u))
           \/ ReadFails(3, SyncOf(u)) )
         => check_result.value = TRUE

\* C14 witness: nothing is newer and the sync store is unreachable.
C14_Witness ==
    /\ Checked
    /\ check_result.user = "u1"
    /\ check_result.outcomes = <<"200", "200", "exception">>
    /\ skill_gap_analyses["u1"] = <<[analyzed_at |-> Ts(2, "Z")]>>
    /\ profiles["u1"] = <<[resume_uploaded_at |-> Ts(1, "Z")]>>
    /\ check_result.reads = 3
    /\ check_result.caught = "RequestException"
    /\ check_result.value = TRUE

\* C15: timestamps are compared in one timezone-aware representation: a "Z"
\* value and an explicit-offset value of the same instant compare equal, and
\* a naive timestamp is never compared against an aware one.
C15_NeverNaiveAgainstAware ==
    LET u == check_result.user IN
    Checked =>
      /\ check_result.caught # "TypeError"
      /\ ( /\ AllReadsOk /\ HasRecord(u)
           /\ IsAware(LastOf(u)) /\ IsAware(ResumeOf(u))
           /\ Instant(ResumeOf(u)) = Instant(LastOf(u))
           /\ ~TsTruthy(SyncOf(u)) )
         => check_result.value = FALSE

\* C16: check_if_analysis_needed only reads: a call leaves the analysis
\* history, the profiles, the sync records and the credential store as they
\* were, whatever it returns.
C16_ReadsOnly ==
    [][check_result' # check_result =>
          UNCHANGED <<skill_gap_analyses, profiles, github_connections,
                      user_api_keys>>]_vars

\* C16 witness: a call that went through all three reads and returned false.
C16_Witness ==
    /\ Checked
    /\ check_result.user = "u1"
    /\ check_result.reads = 3
    /\ check_result.value = FALSE
    /\ profiles["u1"] # <<>>
    /\ github_connections["u1"] # <<>>

\* C17: an AnalysisRecord is written for a user only by the store step of a
\* run whose analysis of that user has returned, never by a step of a
\* skipped or failed run, and a written record is never modified or deleted:
\* every change of the history appends one row to that user's rows.
C17_RecordOnlyAfterAnalysis ==
    [][skill_gap_analyses' # skill_gap_analyses =>
         \E r \in Runs :
            /\ run[r].pc = "store"
            /\ run[r].analysis.status \in {"ok", "parse_error"}
            /\ run[r].analysis.user_id = CurrentUser(r)
            /\ Len(skill_gap_analyses'[CurrentUser(r)])
                 = Len(skill_gap_analyses[CurrentUser(r)]) + 1
            /\ \A u \in Users :
                 \A i \in 1..Len(skill_gap_analyses[u]) :
                    skill_gap_analyses'[u][i] = skill_gap_analyses[u][i]
            /\ \A u \in Users \ {CurrentUser(r)} :
                 skill_gap_analyses'[u] = skill_gap_analyses[u]]_vars

\* C17 witness: a run has skipped u1 and, after the analysis of u2 returned,
\* stored a record for u2; the older record of u1 is as it was.
C17_Witness ==
    \E r \in Runs :
       /\ run[r].pc = "pdf"
       /\ CurrentUser(r) = "u2"
       /\ run[r].analysis = [status |-> "ok", user_id |-> "u2"]
       /\ run[r].analysis_id # ""
       /\ run[r].results # <<>>
       /\ run[r].results[1].status = "skipped"
       /\ skill_gap_analyses["u1"] = <<[analyzed_at |-> Ts(1, "+00:00")]>>
       /\ Len(skill_gap_analyses["u2"]) >= 1

\* C18: when the analyses of two users run concurrently, every AI
\* invocation of a user's call is sent with the credential that call
\* resolved for it.
C18_OwnCredentialUsed ==
    \A u \in Users :
       calls[u].used # NoneVal => calls[u].used = calls[u].api_key

\* The value admin_api_keys holds for a key identifier.
UpstreamValue(k) ==
    LET i == CHOOSE i \in 1..Len(AdminApiKeys) : AdminApiKeys[i].id = k
    IN AdminApiKeys[i].key_value

\* A finished get_api_key call that was served by the valid cache or by its
\* own successful fetch.
Served(t) == threads[t].pc = "done" /\ threads[t].via \in {"cache", "fetch"}

\* C19: under any interleaving of concurrent get_api_key calls, a call that
\* is served by the cache or by a successful refresh returns, for a key that
\* is active upstream, the value of the upstream snapshot.
C19_CompleteSnapshot ==
    \A t \in Threads :
       Served(t) => threads[t].result = UpstreamValue(threads[t].key)

\* The call of thread t was made less than CACHE_DURATION after the fetch
\* the cache timestamp records.
Fresh(t) ==
    /\ threads[t].ts_seen.set
    /\ threads[t].checked_at - threads[t].ts_seen.at < CACHE_DURATION

\* The call of thread t returned a value that was in the cache before it.
FromOldCache(t) == threads[t].via # "fetch" /\ threads[t].result # ""

\* C20 as stated: a call within CACHE_DURATION of the last successful fetch
\* is served from the cache without contacting the store, and no value is
\* returned from the cache more than CACHE_DURATION after it was fetched.
C20_NeverOlderThanDuration ==
    \A t \in Threads :
       threads[t].pc = "done" =>
          /\ Fresh(t) => (threads[t].via = "cache" /\ ~threads[t].contacted)
          /\ FromOldCache(t) => Fresh(t)

\* C20, amended: a call within CACHE_DURATION of the last successful fetch
\* (and no clear_cache since) is served from the cache without contacting
\* the store; every other call contacts the store; a value fetched
\* CACHE_DURATION or longer ago is returned only by a call whose own
\* refresh failed.
C20_StaleOnlyAfterFailedRefresh ==
    \A t \in Threads :
       threads[t].pc = "done" =>
          /\ Fresh(t) => (threads[t].via = "cache" /\ ~threads[t].contacted)
          /\ ~Fresh(t) => threads[t].contacted
          /\ (FromOldCache(t) /\ ~Fresh(t)) => threads[t].via = "stale"

\* C20 witness: a call six minutes after the fetch, whose refresh failed, has
\* returned the value fetched then.
C20_Witness ==
    /\ threads["t1"].pc = "done"
    /\ threads["t1"].via = "stale"
    /\ threads["t1"].contacted
    /\ threads["t1"].ts_seen.set
    /\ threads["t1"].checked_at - threads["t1"].ts_seen.at > CACHE_DURATION
    /\ threads["t1"].result = "AIza-system"

\* C21: check_if_analysis_needed returns false only if the reads of the last
\* analysis, of the profile signal and of the sync signal all completed with
\* a success response; an error status from the profile store or the sync
\* store never leads to a skip.
C21_FalseOnlyAfterThreeGoodReads ==
    (Checked /\ check_result.value = FALSE) => AllReadsOk

\* C22: every user a run reports with status success has an AnalysisRecord
\* persisted by that run: the reported analysis_id is not empty; a failed
\* write of the analysis is never reported as success.
C22_SuccessHasRecord ==
    \A r \in Runs :
       \A i \in 1..Len(run[r].results) :
          run[r].results[i].status = "success"
             => run[r].results[i].analysis_id # ""

\* How often user u is listed in a sequence of result or error entries.
RECURSIVE Listed(_, _)
Listed(entries, u) ==
    IF entries = <<>> THEN 0
    ELSE (IF Head(entries).user_id = u THEN 1 ELSE 0) + Listed(Tail(entries), u)

\* C23: a failure while one user is processed does not stop the run: the run
\* raises only before the first user is processed, and when it returns every
\* eligible user is listed exactly once, in results or in errors, so that
\* processed + errors is the number of eligible users.
C23_EveryUserAccounted ==
    \A r \in Runs :
       /\ run[r].pc = "raised" => (run[r].results = <<>> /\ run[r].errors = <<>>)
       /\ run[r].pc = "done" =>
            /\ Len(run[r].results) + Len(run[r].errors) = Len(run[r].eligible)
            /\ \A i \in 1..Len(run[r].eligible) :
                  Listed(run[r].results, run[r].eligible[i])
                    + Listed(run[r].errors, run[r].eligible[i]) = 1

\* C23 witness: the run is over, u1 failed and u2 after it was a success.
C23_Witness ==
    \E r \in Runs :
       /\ run[r].pc = "done"
       /\ run[r].errors = <<[user_id |-> "u1"]>>
       /\ Len(run[r].results) = 1
       /\ run[r].results[1].user_id = "u2"
       /\ run[r].results[1].status = "success"

\* The gates a run has passed for its current user.
PassedCheck(r)  == run[r].needed
PassedRoles(r)  == PassedCheck(r) /\ run[r].preferred_roles # <<>>
PassedSkills(r) == PassedRoles(r) /\ run[r].user_skills # <<>>

\* The last entry of the results of run r after a step is a new skip.
NewSkip(r) ==
    /\ Len(run'[r].results) = Len(run[r].results) + 1
    /\ run'[r].results[Len(run'[r].results)].status = "skipped"

\* C24: the AI operation is invoked for a user, and anything is written for
\* that user, only after check_if_analysis_needed returned true and the
\* preferred roles and the skills were non-empty, in that order; the step
\* that skips a user follows no AI call of that iteration and writes no
\* AnalysisRecord and no report record.
C24_GatesBeforeWork ==
    /\ [](\A r \in Runs :
            /\ run[r].pc = "roles" => PassedCheck(r)
            /\ run[r].pc = "skills" => PassedRoles(r)
            /\ run[r].pc \in {"analyze", "store", "pdf", "report"} => PassedSkills(r)
            /\ run[r].analysis # NoAnalysis => PassedSkills(r))
    /\ [][\A u \in Users :
            (skill_gap_analyses'[u] # skill_gap_analyses[u] \/ reports'[u] # reports[u])
               => \E r \in Runs : /\ run[r].pc \in {"store", "report"}
                                  /\ CurrentUser(r) = u
                                  /\ PassedSkills(r)]_vars
    /\ [][\A r \in Runs :
            NewSkip(r) => /\ run[r].analysis = NoAnalysis
                          /\ run[r].analysis_id = ""
                          /\ UNCHANGED <<skill_gap_analyses, reports>>]_vars

\* C24 witness: the analysis of u1 has returned after the three gates, and a
\* run has skipped a user before.
C24_Witness ==
    \E r \in Runs :
       /\ run[r].pc = "store"
       /\ CurrentUser(r) = "u1"
       /\ PassedSkills(r)
       /\ \E q \in Runs : /\ run[q].results # <<>>
                           /\ run[q].results[1].status = "skipped"

\* What check_if_analysis_needed(u) returns after the step, all reads
\* succeeding.
NextCheck(u) ==
    check_if_analysis_needed(
        Response("200", LatestAnalysisRows(skill_gap_analyses'[u])),
        Response("200", profiles'[u]),
        Response("200", github_connections'[u])).value

\* C25: no input change is lost between runs: when a run stamps the
\* AnalysisRecord of a user whose resume upload completed while that run was
\* analysing (after it read the skills), the next check_if_analysis_needed
\* for the user returns true.
C25_NoLostChange ==
    [][\A u \in Users :
          (skill_gap_analyses'[u] # skill_gap_analyses[u] /\ TsTruthy(ResumeOf(u)))
             => NextCheck(u)]_vars

\* C26: after any sequence of set_preferred_roles calls (POST /roles or
\* generate_analysis with roles in the request), whatever the delete and
\* insert requests answer and however two calls for one user interleave, the
\* user has at most 3 stored preferred roles.
C26_AtMostThreeRoles ==
    \A u \in Users : Len(user_preferred_roles[u]) <= MaxRoles

\* C27: a generate_analysis request answered with 404 or 400 leaves the
\* persisted state of the user as it was when the request came in (no roles
\* replaced, no analysis record, no report record) and has made no AI call.
C27_RejectedLeavesNoTrace ==
    \A h \in Handlers :
       (handlers[h].op = "generate" /\ handlers[h].status \in {400, 404})
          => /\ Persisted(handlers[h].user_id) = handlers[h].before
             /\ ~handlers[h].ai_called

\* Worker h returns from save_user_api_key in this step while no other
\* worker is inside save_user_api_key for the same user.
SaveReturns(h) ==
    /\ handlers[h].pc \in {"patch", "post"}
    /\ handlers'[h].status = 200
    /\ \A g \in Handlers \ {h} :
          handlers[g].user_id = handlers[h].user_id
             => handlers[g].pc \notin {"check", "patch", "post"}

\* What get_api_key_for_user(u) returns after the step, its lookup succeeding.
NextKeyOf(u) ==
    get_api_key_for_user([outcome |-> "200",
                          json |-> SelectRows(user_api_keys'[u], TRUE)])

\* C28: after any sequence of save_user_api_key calls for a user, two
\* interleaving calls included, the store holds at most one google_ai_studio
\* row for the user, and get_api_key_for_user returns the key saved last,
\* with scope user.
C28_OneKeyLastSaved ==
    /\ [](\A u \in Users : Len(user_api_keys[u]) <= 1)
    /\ [][\A h \in Handlers :
             SaveReturns(h) =>
                /\ NextKeyOf(handlers[h].user_id).api_key = handlers[h].api_key
                /\ NextKeyOf(handlers[h].user_id).source = "user"]_vars

====
